---- MODULE Spec2Model ----
(***************************************************************************)
(* yellowtail: Redfin listing scraper.  The model covers the Agent class    *)
(* (yellowtail/agent.py), the scrape run (scripts/pull_redfin.py) and the   *)
(* per-day summary (scripts/summarize.py).                                  *)
(*                                                                          *)
(* Floating point values are tagged records: Val(n) is the number n, NaN    *)
(* is pandas' not-a-number.  JSON objects and pandas rows are functions     *)
(* from key / column name to value, so that "key in dict" is a DOMAIN       *)
(* test.  A raised exception is a result with tag "raise".                  *)
(***************************************************************************)
EXTENDS Integers, Sequences, FiniteSets, TLC

VARIABLES
    pc,                 \* position of the running script / method
    err,                \* exception that ended the run ("" when none)
    today,              \* datetime.now().strftime("%Y-%m-%d")
    download,           \* response of Agent.pull_listings
    digest,             \* data frame returned by Agent.digest_listings
    daskclient,         \* worker pool of pull_details: "none", "open", "closed"
    futures,            \* one dask future per dispatched Resolver invocation
    completed_results,  \* results in the order as_completed yields them
    processed_df,       \* data frame returned by Agent.digest_details
    rawfile,            \* output/listings.csv.gz
    call,               \* one Resolver invocation followed call by call
    incremental,        \* mode flag of summarize.py
    summary_df,         \* per-date summary computed by summarize.py
    summaryfile         \* output/per_day_summary.csv

vars == <<pc, err, today, download, digest, daskclient, futures,
          completed_results, processed_df, rawfile, call, incremental,
          summary_df, summaryfile>>

-----------------------------------------------------------------------------
(* Bounds *)

MaxListings == 2    \* rows of the listing download
MaxTaxLen == 2      \* entries of a property's tax history
MaxResults == 2     \* results handed to digest_details when called directly
MaxRecords == 3     \* rows of the raw listings file read by summarize.py

-----------------------------------------------------------------------------
(* Values *)

Val(n) == [tag |-> "val", v |-> n]
NaN == [tag |-> "nan", v |-> 0]
Raise(e) == [tag |-> "raise", v |-> 0, exc |-> e]

IsRaise(r) == r.tag = "raise"

\* the "return -1 if something broke" value of process_redfin_response
FAILURE == -1

Range(s) == {s[i] : i \in 1..Len(s)}

\* dict.get(key, None) on a JSON object whose values are strings
DictGet(d, k) == IF k \in DOMAIN d THEN d[k] ELSE "None"

\* a + b on floats
FloatAdd(a, b) ==
    IF a.tag = "nan" \/ b.tag = "nan" THEN NaN ELSE Val(a.v + b.v)

-----------------------------------------------------------------------------
(* The Resolver: Agent.query_redfin_dask and Agent.process_redfin_response *)

\* pd.DataFrame(allTaxInfo).columns: the union of the entries' keys
TaxColumns(allTaxInfo) == UNION {DOMAIN allTaxInfo[i] : i \in 1..Len(allTaxInfo)}

\* pd.DataFrame(allTaxInfo).sort_values("rollYear", ascending=False).iloc[0]:
\* the candidates for the first row.  Entries without rollYear hold NaN and
\* sort last; the order among equal years is left to the sort algorithm.
LatestIndices(allTaxInfo) ==
    LET withYear == {i \in 1..Len(allTaxInfo) : "rollYear" \in DOMAIN allTaxInfo[i]}
    IN  {i \in withYear :
            \A j \in withYear : allTaxInfo[j]["rollYear"] <= allTaxInfo[i]["rollYear"]}

\* tax_assessment.get(col, 0) on a row of the frame: the default only
\* applies when no entry of the list has the column; a column that other
\* entries have is NaN in a row whose entry lacks it
SeriesGet(allTaxInfo, i, col) ==
    IF col \notin TaxColumns(allTaxInfo) THEN Val(0)
    ELSE IF col \in DOMAIN allTaxInfo[i] THEN Val(allTaxInfo[i][col])
    ELSE NaN

\* agent.py lines 218-229: the possible return values for a tax history
LatestAssessment(allTaxInfo) ==
    IF Len(allTaxInfo) > 0
    THEN IF "rollYear" \notin TaxColumns(allTaxInfo)
         THEN {Raise("KeyError")}
         ELSE {FloatAdd(SeriesGet(allTaxInfo, i, "taxableLandValue"),
                        SeriesGet(allTaxInfo, i, "taxableImprovementValue")) :
                  i \in LatestIndices(allTaxInfo)}
    ELSE {Val(FAILURE)}

\* agent.py lines 216-218: redfinclient.below_the_fold(property_id) and the
\* path info['payload']['publicRecordsInfo']['allTaxInfo']
BelowTheFold(reply) ==
    IF reply.raised THEN {Raise("ConnectionError")}
    ELSE IF "payload" \notin DOMAIN reply.dict THEN {Raise("KeyError")}
    ELSE IF "publicRecordsInfo" \notin DOMAIN reply.dict.payload THEN {Raise("KeyError")}
    ELSE IF "allTaxInfo" \notin DOMAIN reply.dict.payload.publicRecordsInfo
         THEN {Raise("KeyError")}
    ELSE LatestAssessment(reply.dict.payload.publicRecordsInfo.allTaxInfo)

\* agent.py lines 211-215: redfinclient.initial_info(url)['payload']
InitialInfo(redfinclient) ==
    LET reply == redfinclient.initial_info
    IN  IF reply.raised THEN {Raise("ConnectionError")}
        ELSE IF "payload" \notin DOMAIN reply.dict THEN {Raise("KeyError")}
        ELSE LET data == reply.dict.payload
             IN  IF "responseCode" \notin DOMAIN data THEN {Raise("KeyError")}
                 ELSE IF data.responseCode # 200 THEN {Val(FAILURE)}
                 ELSE IF "propertyId" \notin DOMAIN data THEN {Raise("KeyError")}
                 ELSE IF "listingId" \notin DOMAIN data THEN {Raise("KeyError")}
                 ELSE BelowTheFold(redfinclient.below_the_fold)

\* Agent.process_redfin_response: the set of outcomes (return values and
\* raised exceptions) for one autocomplete response and one redfin client
process_redfin_response(response, redfinclient) ==
    IF response.status_code # 200 THEN {Val(FAILURE)}
    ELSE IF ~response.text.valid THEN {Raise("JSONDecodeError")}
    ELSE LET resp_dict == response.text.dict
         IN  IF "payload" \notin DOMAIN resp_dict THEN {Raise("KeyError")}
             ELSE IF (DictGet(resp_dict, "errorMessage") = "Success")
                      /\ ("exactMatch" \in DOMAIN resp_dict.payload)
                  THEN IF "url" \notin DOMAIN resp_dict.payload.exactMatch
                       THEN {Raise("KeyError")}
                       ELSE InitialInfo(redfinclient)
                  ELSE {Val(FAILURE)}

\* Agent.query_redfin_dask: session.get, then {address: value}; the outcome
\* is either a raised exception or the value stored under the address
query_redfin_dask(session, redfinclient, address) ==
    IF session.raised THEN {Raise("ConnectionError")}
    ELSE process_redfin_response(session.response, redfinclient)

-----------------------------------------------------------------------------
(* The remote service, as seen by one Resolver invocation *)

Addresses == {"1 A St", "2 B St"}

TaxEntries ==
    { [rollYear |-> 2021, taxableLandValue |-> 400000, taxableImprovementValue |-> 100000],
      [rollYear |-> 2020, taxableLandValue |-> 500000, taxableImprovementValue |-> 100000],
      [rollYear |-> 2021, taxableLandValue |-> 600000],
      [taxableLandValue |-> 500000, taxableImprovementValue |-> 100000] }

RECURSIVE SeqsUpTo(_, _)
SeqsUpTo(S, n) ==
    IF n = 0 THEN {<<>>}
    ELSE LET shorter == SeqsUpTo(S, n - 1)
         IN  shorter \cup {Append(s, e) : s \in {t \in shorter : Len(t) = n - 1}, e \in S}

TaxHistories == SeqsUpTo(TaxEntries, MaxTaxLen)

ExactMatch == [exactMatch |-> [url |-> "/DC/Washington/home/1"]]

Response(code, valid, dict) ==
    [raised |-> FALSE,
     response |-> [status_code |-> code, text |-> [valid |-> valid, dict |-> dict]]]

GoodSession == Response(200, TRUE, [errorMessage |-> "Success", payload |-> ExactMatch])

\* outcomes of session.get on the location-autocomplete endpoint
Sessions ==
    { [raised |-> TRUE, response |-> GoodSession.response],
      Response(404, FALSE, [errorMessage |-> "Not Found"]),
      Response(200, FALSE, [errorMessage |-> "Success"]),
      Response(200, TRUE, [errorMessage |-> "Success"]),
      Response(200, TRUE, [errorMessage |-> "Error", payload |-> ExactMatch]),
      Response(200, TRUE, [payload |-> ExactMatch]),
      Response(200, TRUE, [errorMessage |-> "Success", payload |-> [sections |-> [url |-> "/"]]]),
      Response(200, TRUE, [errorMessage |-> "Success",
                           payload |-> [exactMatch |-> [name |-> "1 A St"]]]),
      GoodSession }

Reply(dict) == [raised |-> FALSE, dict |-> dict]

GoodInitialInfo ==
    Reply([payload |-> [responseCode |-> 200, propertyId |-> 1, listingId |-> 2]])

\* outcomes of redfinclient.initial_info(url)
InitialInfos ==
    { [raised |-> TRUE, dict |-> GoodInitialInfo.dict],
      Reply([errorMessage |-> "Error"]),
      Reply([payload |-> [propertyId |-> 1, listingId |-> 2]]),
      Reply([payload |-> [responseCode |-> 500, propertyId |-> 1, listingId |-> 2]]),
      Reply([payload |-> [responseCode |-> 200, listingId |-> 2]]),
      Reply([payload |-> [responseCode |-> 200, propertyId |-> 1]]),
      GoodInitialInfo }

GoodBelowTheFold(allTaxInfo) ==
    Reply([payload |-> [publicRecordsInfo |-> [allTaxInfo |-> allTaxInfo]]])

\* outcomes of redfinclient.below_the_fold(property_id)
BelowTheFolds ==
    { [raised |-> TRUE, dict |-> GoodBelowTheFold(<<>>).dict],
      Reply([errorMessage |-> "Error"]),
      Reply([payload |-> [amenitiesInfo |-> [allTaxInfo |-> <<>>]]]),
      Reply([payload |-> [publicRecordsInfo |-> [basicInfo |-> <<>>]]]) }
    \cup {GoodBelowTheFold(t) : t \in TaxHistories}

World(s, i, b) ==
    [session |-> s, redfinclient |-> [initial_info |-> i, below_the_fold |-> b]]

DefaultTaxInfo ==
    <<[rollYear |-> 2021, taxableLandValue |-> 400000, taxableImprovementValue |-> 100000]>>

\* what the remote service may answer to one invocation: every outcome of
\* each of the three calls, the other two calls answering normally
RemoteOutcomes ==
    {World(s, GoodInitialInfo, GoodBelowTheFold(DefaultTaxInfo)) : s \in Sessions}
    \cup {World(GoodSession, i, GoodBelowTheFold(DefaultTaxInfo)) : i \in InitialInfos}
    \cup {World(GoodSession, GoodInitialInfo, b) : b \in BelowTheFolds}

\* the possible outcomes of one worker invocation for an address
Resolve(address, world) ==
    query_redfin_dask(world.session, world.redfinclient, address)

-----------------------------------------------------------------------------
(* Data frames and CSV text *)

\* A data frame is [columns: sequence of names, rows: sequence of
\* functions from column name to value]; CSV text is a sequence of lines,
\* each a sequence of cells, the first line holding the column names.

gen_cols == <<"ADDRESS", "CITY", "STATE OR PROVINCE", "ZIP OR POSTAL CODE", "PRICE">>

gen_final_cols == gen_cols \o <<"tax_assessed_value", "date">>

EmptyFrame == [columns |-> <<>>, rows |-> <<>>]

IndexOf(s, e) == CHOOSE i \in 1..Len(s) : s[i] = e

\* the value pandas gives a cell that a short line does not have: NaN, and
\* NaT once parse_dates has converted the date column
MissingCell(c) == IF c = "date" THEN "NaT" ELSE NaN

\* pd.read_csv: rows keyed by the names of the first line; a line with
\* fewer cells than the header is filled up with missing values
read_csv(content) ==
    [columns |-> content[1],
     rows |-> [i \in 1..(Len(content) - 1) |->
                  [c \in Range(content[1]) |->
                      IF IndexOf(content[1], c) <= Len(content[i + 1])
                      THEN content[i + 1][IndexOf(content[1], c)]
                      ELSE MissingCell(c)]]]

\* the lines DataFrame.to_csv(index=False) produces, with or without header
to_csv(df, header) ==
    (IF header THEN <<df.columns>> ELSE <<>>)
    \o [i \in 1..Len(df.rows) |-> [k \in 1..Len(df.columns) |-> df.rows[i][df.columns[k]]]]

\* df[cols]
Project(df, cols) ==
    [columns |-> cols,
     rows |-> [i \in 1..Len(df.rows) |-> [c \in Range(cols) |-> df.rows[i][c]]]]

\* a filter that only drops the rows without a number
AnyAssessed(row) == row["tax_assessed_value"].tag = "val"

\* df.query('tax_assessed_value > 0'): NaN > 0 is False
PositiveAssessed(row) ==
    row["tax_assessed_value"].tag = "val" /\ row["tax_assessed_value"].v > 0

QueryPositive(df) ==
    [columns |-> df.columns, rows |-> SelectSeq(df.rows, PositiveAssessed)]

-----------------------------------------------------------------------------
(* Agent.digest_listings *)

\* digest_listings accepting a download as long as ADDRESS, CITY and STATE
\* are there to build full_address from
digest_listings_lenient(dl) ==
    IF dl.status_code # 200
    THEN [raised |-> TRUE, df |-> EmptyFrame]
    ELSE LET df == read_csv(dl.content)
             present == SelectSeq(gen_cols, LAMBDA c : c \in Range(df.columns))
         IN  IF {"ADDRESS", "CITY", "STATE OR PROVINCE"} \subseteq Range(present)
             THEN [raised |-> FALSE,
                   df |-> [columns |-> present \o <<"full_address">>,
                           rows |-> [i \in 1..Len(df.rows) |->
                               [c \in Range(present) |-> df.rows[i][c]]
                               @@ ("full_address" :>
                                     df.rows[i]["ADDRESS"] \o ", " \o df.rows[i]["CITY"]
                                     \o " " \o df.rows[i]["STATE OR PROVINCE"])]]]
             ELSE [raised |-> TRUE, df |-> EmptyFrame]

\* Agent.digest_listings: [raised, df]
digest_listings(dl) ==
    IF dl.status_code # 200
    THEN [raised |-> TRUE, df |-> EmptyFrame]
    ELSE LET df == read_csv(dl.content)
             missing_cols == {c \in Range(gen_cols) : c \notin Range(df.columns)}
         IN  IF Cardinality(missing_cols) > 0
             THEN [raised |-> TRUE, df |-> EmptyFrame]
             ELSE [raised |-> FALSE,
                   df |-> [columns |-> gen_cols \o <<"full_address">>,
                           rows |-> [i \in 1..Len(df.rows) |->
                               [c \in Range(gen_cols) |-> df.rows[i][c]]
                               @@ ("full_address" :>
                                     df.rows[i]["ADDRESS"] \o ", " \o df.rows[i]["CITY"]
                                     \o " " \o df.rows[i]["STATE OR PROVINCE"])]]]

-----------------------------------------------------------------------------
(* Agent.compile_results and Agent.digest_details *)

\* One element of completed_results: the dict {address: value} a worker
\* returned, as its items; or, for a future that ended in error, the
\* exception information as_completed(raise_errors=False) yields instead.
ResultDict(address, value) == [kind |-> "dict", items |-> <<<<address, value>>>>]
ExcInfo == [kind |-> "exc_info", items |-> <<>>]

\* dict(pairs) keeping the first pair of a key instead of the last
RECURSIVE DictOfFirstWins(_)
DictOfFirstWins(pairs) ==
    IF pairs = <<>> THEN <<>>
    ELSE LET d == DictOfFirstWins(Tail(pairs))
             p == pairs[1]
         IN  [k \in (DOMAIN d) \cup {p[1]} |-> IF k = p[1] THEN p[2] ELSE d[k]]

\* dict(pairs): a later pair replaces an earlier one with the same key
RECURSIVE DictOf(_)
DictOf(pairs) ==
    IF pairs = <<>> THEN <<>>
    ELSE LET d == DictOf(SubSeq(pairs, 1, Len(pairs) - 1))
             p == pairs[Len(pairs)]
         IN  [k \in (DOMAIN d) \cup {p[1]} |-> IF k = p[1] THEN p[2] ELSE d[k]]

\* it.chain.from_iterable(a.items() for a in results)
RECURSIVE ChainItems(_)
ChainItems(results) ==
    IF results = <<>> THEN <<>>
    ELSE results[1].items \o ChainItems(Tail(results))

\* Agent.compile_results: [raised, series]; a.items() raises AttributeError
\* on an element that is not a dict
compile_results(results) ==
    IF \E i \in 1..Len(results) : results[i].kind # "dict"
    THEN [raised |-> TRUE, series |-> <<>>]
    ELSE [raised |-> FALSE, series |-> DictOf(ChainItems(results))]

\* a merge that leaves out the rows whose lookup failed
MergeDropFailed(df, series) ==
    LET Matches(row) == /\ row["full_address"] \in DOMAIN series
                        /\ series[row["full_address"]] # Val(FAILURE)
        kept == SelectSeq(df.rows, Matches)
    IN  [columns |-> df.columns \o <<"tax_assessed_value">>,
         rows |-> [i \in 1..Len(kept) |->
                      kept[i] @@ ("tax_assessed_value" :> series[kept[i]["full_address"]])]]

\* df.merge(series, left_on='full_address', right_index=True): inner join,
\* in the order of the left rows
Merge(df, series) ==
    LET Matches(row) == row["full_address"] \in DOMAIN series
        kept == SelectSeq(df.rows, Matches)
    IN  [columns |-> df.columns \o <<"tax_assessed_value">>,
         rows |-> [i \in 1..Len(kept) |->
                      kept[i] @@ ("tax_assessed_value" :> series[kept[i]["full_address"]])]]

\* .assign(date=timestamp)
AssignDate(df, timestamp) ==
    [columns |-> df.columns \o <<"date">>,
     rows |-> [i \in 1..Len(df.rows) |-> df.rows[i] @@ ("date" :> timestamp)]]

\* Agent.digest_details: [raised, df]
digest_details(df, results, timestamp) ==
    LET compiled == compile_results(results)
    IN  IF compiled.raised
        THEN [raised |-> TRUE, df |-> EmptyFrame]
        ELSE [raised |-> FALSE,
              df |-> Project(AssignDate(Merge(df, compiled.series), timestamp),
                             gen_final_cols)]

-----------------------------------------------------------------------------
(* The listing download *)

Dates == {"2021-09-01", "2021-09-02"}

\* (ADDRESS, PRICE) of the listings the search may return
ListingChoices == {<<"1 A St", 700000>>, <<"2 B St", 500100>>, <<"1 A St", 500050>>}

ListingTables == SeqsUpTo(ListingChoices, MaxListings)

DownloadHeaders ==
    { <<"ADDRESS", "CITY", "STATE OR PROVINCE", "ZIP OR POSTAL CODE", "PRICE", "BEDS">>,
      <<"ADDRESS", "CITY", "STATE OR PROVINCE", "ZIP OR POSTAL CODE", "BEDS">> }

ListingCell(listing, col) ==
    CASE col = "ADDRESS" -> listing[1]
      [] col = "CITY" -> "Washington"
      [] col = "STATE OR PROVINCE" -> "DC"
      [] col = "ZIP OR POSTAL CODE" -> "20001"
      [] col = "PRICE" -> listing[2]
      [] OTHER -> 3

\* the CSV text of a listing table under a header
ListingCsv(header, table) ==
    <<header>> \o [i \in 1..Len(table) |->
                      [k \in 1..Len(header) |-> ListingCell(table[i], header[k])]]

\* what the gis-csv endpoint may answer
Downloads ==
    {[status_code |-> 200, content |-> ListingCsv(h, t)] :
        h \in DownloadHeaders, t \in ListingTables}
    \cup {[status_code |-> 403, content |-> <<<<"Forbidden">>>>]}

NoDownload == [status_code |-> 0, content |-> <<>>]

NoFile == [exists |-> FALSE, lines |-> <<>>]

\* output/listings.csv.gz as an earlier scrape run left it
EarlierRawFile ==
    [exists |-> TRUE,
     lines |-> <<gen_cols, <<"9 Z St", "Washington", "DC", "20001", 650000>>>>]

NoCall == [stage |-> "idle", address |-> "", world |-> <<>>, result |-> Val(0)]

-----------------------------------------------------------------------------
(* scripts/pull_redfin.py: one scrape run *)

Init ==
    /\ pc = "pull_listings"
    /\ err = ""
    /\ today \in Dates
    /\ download = NoDownload
    /\ digest = EmptyFrame
    /\ daskclient = "none"
    /\ futures = <<>>
    /\ completed_results = <<>>
    /\ processed_df = EmptyFrame
    /\ rawfile \in {NoFile, EarlierRawFile}
    /\ call = NoCall
    /\ incremental = FALSE
    /\ summary_df = <<>>
    /\ summaryfile = NoFile

Abort(e) == pc' = "aborted" /\ err' = e

\* pull_redfin.py line 26: agent.pull_listings()
PullListings ==
    /\ pc = "pull_listings"
    /\ \/ /\ \E d \in Downloads : download' = d
          /\ pc' = "digest_listings"
          /\ err' = err
       \/ /\ Abort("ConnectionError")
          /\ download' = download
    /\ UNCHANGED <<today, digest, daskclient, futures, completed_results,
                   processed_df, rawfile, call, incremental, summary_df, summaryfile>>

\* pull_redfin.py line 29: agent.digest_listings(download)
DigestListings ==
    /\ pc = "digest_listings"
    /\ LET r == digest_listings(download)
       IN  IF r.raised
           THEN Abort("RuntimeError") /\ digest' = digest
           ELSE pc' = "pull_details" /\ digest' = r.df /\ err' = err
    /\ UNCHANGED <<today, download, daskclient, futures, completed_results,
                   processed_df, rawfile, call, incremental, summary_df, summaryfile>>

\* digest['full_address'].to_list()
list_of_addresses == [i \in 1..Len(digest.rows) |-> digest.rows[i]["full_address"]]

\* agent.py line 126: daskclient = Client()
CreatePool ==
    /\ pc = "pull_details"
    /\ daskclient' = "open"
    /\ pc' = "dispatch"
    /\ UNCHANGED <<err, today, download, digest, futures, completed_results,
                   processed_df, rawfile, call, incremental, summary_df, summaryfile>>

\* agent.py lines 132-137: one delayed call per element of the list
Dispatch ==
    /\ pc = "dispatch"
    /\ futures' = [i \in 1..Len(list_of_addresses) |->
                      [address |-> list_of_addresses[i], status |-> "pending",
                       result |-> Val(0)]]
    /\ pc' = "collect"
    /\ UNCHANGED <<err, today, download, digest, daskclient, completed_results,
                   processed_df, rawfile, call, incremental, summary_df, summaryfile>>

\* what as_completed(futures, raise_errors=False, with_results=True) yields
\* for a future that ended with outcome r
Yielded(address, r) == IF IsRaise(r) THEN ExcInfo ELSE ResultDict(address, r)

\* a worker runs query_redfin_dask for future i to its end; as_completed
\* hands the result to the list comprehension of lines 138-141
WorkerFinish(i) ==
    /\ pc = "collect"
    /\ futures[i].status = "pending"
    /\ \E w \in RemoteOutcomes : \E r \in Resolve(futures[i].address, w) :
          /\ futures' = [futures EXCEPT ![i].status = IF IsRaise(r) THEN "error" ELSE "finished",
                                        ![i].result = r]
          /\ completed_results' = Append(completed_results, Yielded(futures[i].address, r))
    /\ UNCHANGED <<pc, err, today, download, digest, daskclient,
                   processed_df, rawfile, call, incremental, summary_df, summaryfile>>

\* agent.py lines 142-144: every future has been yielded; daskclient.close()
ClosePool ==
    /\ pc = "collect"
    /\ \A i \in 1..Len(futures) : futures[i].status # "pending"
    /\ daskclient' = "closed"
    /\ pc' = "digest_details"
    /\ UNCHANGED <<err, today, download, digest, futures, completed_results,
                   processed_df, rawfile, call, incremental, summary_df, summaryfile>>

\* pull_redfin.py line 35: agent.digest_details(digest, details)
DigestDetails ==
    /\ pc = "digest_details"
    /\ LET r == digest_details(digest, completed_results, today)
       IN  IF r.raised
           THEN Abort("AttributeError") /\ processed_df' = processed_df
           ELSE pc' = "write" /\ processed_df' = r.df /\ err' = err
    /\ UNCHANGED <<today, download, digest, daskclient, futures, completed_results,
                   rawfile, call, incremental, summary_df, summaryfile>>

\* pull_redfin.py lines 38-42
final_df == Project(QueryPositive(processed_df), gen_cols)

\* an append that writes the column names every time
AppendCsvWithHeader(file, df) ==
    [exists |-> TRUE, lines |-> file.lines \o to_csv(df, TRUE)]

\* DataFrame.to_csv(path, mode='a', header=not path.exists())
AppendCsv(file, df) ==
    [exists |-> TRUE, lines |-> file.lines \o to_csv(df, ~file.exists)]

\* pull_redfin.py lines 38-50: filter, project, append to listings.csv.gz
WriteRaw ==
    /\ pc = "write"
    /\ rawfile' = AppendCsv(rawfile, final_df)
    /\ pc' = "close_client"
    /\ UNCHANGED <<err, today, download, digest, daskclient, futures,
                   completed_results, processed_df, call, incremental,
                   summary_df, summaryfile>>

\* pull_redfin.py line 53: daskclient.close(), a name main() never binds
CloseClient ==
    /\ pc = "close_client"
    /\ Abort("NameError")
    /\ UNCHANGED <<today, download, digest, daskclient, futures, completed_results,
                   processed_df, rawfile, call, incremental, summary_df, summaryfile>>

Next ==
    \/ PullListings
    \/ DigestListings
    \/ CreatePool
    \/ Dispatch
    \/ \E i \in 1..Len(futures) : WorkerFinish(i)
    \/ ClosePool
    \/ DigestDetails
    \/ WriteRaw
    \/ CloseClient

Spec == Init /\ [][Next]_vars

-----------------------------------------------------------------------------
(* One Resolver invocation on its own *)

FullAddresses == {a \o ", Washington DC" : a \in Addresses}

InitResolver ==
    /\ pc = "resolver"
    /\ err = ""
    /\ today \in Dates
    /\ download = NoDownload
    /\ digest = EmptyFrame
    /\ daskclient = "none"
    /\ futures = <<>>
    /\ completed_results = <<>>
    /\ processed_df = EmptyFrame
    /\ rawfile = NoFile
    /\ call \in {[stage |-> "called", address |-> a, world |-> w, result |-> Val(0)] :
                    a \in FullAddresses, w \in RemoteOutcomes}
    /\ incremental = FALSE
    /\ summary_df = <<>>
    /\ summaryfile = NoFile

\* Agent.query_redfin_dask(session, redfinclient, address) runs to its end
QueryRedfin ==
    /\ call.stage = "called"
    /\ \E r \in Resolve(call.address, call.world) :
          call' = [call EXCEPT !.stage = IF IsRaise(r) THEN "raised" ELSE "returned",
                               !.result = r]
    /\ UNCHANGED <<pc, err, today, download, digest, daskclient, futures,
                   completed_results, processed_df, rawfile, incremental,
                   summary_df, summaryfile>>

NextResolver == QueryRedfin

ResolverSpec == InitResolver /\ [][NextResolver]_vars

-----------------------------------------------------------------------------
(* Agent.digest_details called on its own, as tests/test_agent.py does *)

FullHeader == <<"ADDRESS", "CITY", "STATE OR PROVINCE", "ZIP OR POSTAL CODE", "PRICE", "BEDS">>

ResultItems ==
    {ResultDict(a, v) : a \in FullAddresses, v \in {Val(500000), Val(FAILURE)}}
    \cup {ExcInfo}

InitMerge ==
    /\ pc = "digest_details"
    /\ err = ""
    /\ today \in Dates
    /\ download = NoDownload
    /\ digest \in {digest_listings([status_code |-> 200,
                                    content |-> ListingCsv(FullHeader, t)]).df :
                      t \in ListingTables}
    /\ daskclient = "none"
    /\ futures = <<>>
    /\ completed_results \in SeqsUpTo(ResultItems, MaxResults)
    /\ processed_df = EmptyFrame
    /\ rawfile = NoFile
    /\ call = NoCall
    /\ incremental = FALSE
    /\ summary_df = <<>>
    /\ summaryfile = NoFile

NextMerge == DigestDetails

MergeSpec == InitMerge /\ [][NextMerge]_vars

-----------------------------------------------------------------------------
(* scripts/summarize.py *)

\* outlier threshold of adjusted_mean and adjusted_median
threshold == 200000

\* A statistic is a fraction in lowest terms, or NaN

RECURSIVE Gcd(_, _)
Gcd(a, b) == IF b = 0 THEN a ELSE Gcd(b, a % b)

Abs(n) == IF n < 0 THEN -n ELSE n

Frac(n, d) ==
    LET g == Gcd(Abs(n), d)
    IN  [tag |-> "val", num |-> n \div g, den |-> d \div g]

NaNStat == [tag |-> "nan", num |-> 0, den |-> 1]

RECURSIVE SumSeq(_)
SumSeq(s) == IF s = <<>> THEN 0 ELSE s[1] + SumSeq(Tail(s))

\* np.mean: nan (with a warning) for an empty list
Mean(vals) ==
    IF vals = <<>> THEN NaNStat ELSE Frac(SumSeq(vals), Len(vals))

\* np.median: nan (with a warning) for an empty list
Median(vals) ==
    IF vals = <<>> THEN NaNStat
    ELSE LET sorted == SortSeq(vals, LAMBDA a, b : a < b)
             n == Len(vals)
         IN  IF n % 2 = 1
             THEN Frac(sorted[(n + 1) \div 2], 1)
             ELSE Frac(sorted[n \div 2] + sorted[n \div 2 + 1], 2)

\* a trimmed mean that keeps the values equal to the threshold
adjusted_mean_inclusive(grouped) ==
    Mean(SelectSeq(grouped, LAMBDA val : val <= threshold))

\* adjusted_mean(grouped, threshold=200_000)
adjusted_mean(grouped) ==
    Mean(SelectSeq(grouped, LAMBDA val : val < threshold))

\* adjusted_median(grouped, threshold=200_000)
adjusted_median(grouped) ==
    Median(SelectSeq(grouped, LAMBDA val : val < threshold))

\* the calendar, for parse_dates=['date'] and the comparison with today
DateSeq == <<"2021-09-01", "2021-09-02">>

\* the day number of a date string; 0 stands for NaT
parse_date(str) == IF str \in Range(DateSeq) THEN IndexOf(DateSeq, str) ELSE 0

format_date(day) == DateSeq[day]

Column(rows, c) == [i \in 1..Len(rows) |-> rows[i][c]]

\* summarize.py lines 33-39: the mode's selection, the filter on the
\* assessed value and the overpriced column
SelectRecords(df, mode, now) ==
    LET parsed == [i \in 1..Len(df.rows) |->
                      [df.rows[i] EXCEPT !["date"] = parse_date(@)]]
        Today(row) == row["date"] = parse_date(now)
        selected == IF mode THEN SelectSeq(parsed, Today) ELSE parsed
        positive == SelectSeq(selected, PositiveAssessed)
    IN  [i \in 1..Len(positive) |->
            [c \in DOMAIN positive[i] \cup {"overpriced"} |->
                IF c = "overpriced"
                THEN positive[i]["PRICE"] - positive[i]["tax_assessed_value"].v
                ELSE positive[i][c]]]

\* a summary row whose statistics are taken over all the rows read, not
\* over the rows of its date
SummaryRowUngrouped(day, rows) ==
    LET OfDay(row) == row["date"] = day
        group == SelectSeq(rows, OfDay)
        assessed == [i \in 1..Len(rows) |-> rows[i]["tax_assessed_value"].v]
    IN  [date |-> format_date(day),
         ADDRESS_count |-> Len(group),
         PRICE_mean |-> Mean(Column(rows, "PRICE")),
         PRICE_median |-> Median(Column(rows, "PRICE")),
         tax_assessed_value_mean |-> Mean(assessed),
         tax_assessed_value_median |-> Median(assessed),
         overpriced_adjusted_mean |-> adjusted_mean(Column(rows, "overpriced")),
         overpriced_adjusted_median |-> adjusted_median(Column(rows, "overpriced"))]

\* summarize.py lines 41-52: one row of the flattened groupby('date').agg
SummaryRow(day, rows) ==
    LET OfDay(row) == row["date"] = day
        group == SelectSeq(rows, OfDay)
        assessed == [i \in 1..Len(group) |-> group[i]["tax_assessed_value"].v]
    IN  [date |-> format_date(day),
         ADDRESS_count |-> Len(group),
         PRICE_mean |-> Mean(Column(group, "PRICE")),
         PRICE_median |-> Median(Column(group, "PRICE")),
         tax_assessed_value_mean |-> Mean(assessed),
         tax_assessed_value_median |-> Median(assessed),
         overpriced_adjusted_mean |-> adjusted_mean(Column(group, "overpriced")),
         overpriced_adjusted_median |-> adjusted_median(Column(group, "overpriced"))]

\* groupby('date'): one group per date present, in date order
Aggregate(rows) ==
    LET Present(day) == \E i \in 1..Len(rows) : rows[i]["date"] = day
        days == SelectSeq([k \in 1..Len(DateSeq) |-> k], Present)
    IN  [k \in 1..Len(days) |-> SummaryRow(days[k], rows)]

SummaryColumns ==
    <<"date", "ADDRESS_count", "PRICE_mean", "PRICE_median",
      "tax_assessed_value_mean", "tax_assessed_value_median",
      "overpriced_adjusted_mean", "overpriced_adjusted_median">>

\* summary_df as a frame whose index is written as first column
SummaryFrame(rows) == [columns |-> SummaryColumns, rows |-> rows]

\* summary_df.to_csv(output): the file is replaced
OverwriteCsv(df) == [exists |-> TRUE, lines |-> to_csv(df, TRUE)]

\* the columns summarize.py reads from the raw listings file
NeededColumns == {"date", "tax_assessed_value", "PRICE", "ADDRESS"}

\* columns of the raw listings file as scripts/download_redfin.py writes it
relevant_columns == gen_cols \o <<"tax_assessed_value", "overpriced", "date">>

\* (PRICE, tax_assessed_value, date) of the rows a raw listings file may hold
RecordChoices ==
    { <<500100, 500000, "2021-09-01">>, <<500050, 500000, "2021-09-01">>,
      <<800000, 500000, "2021-09-01">>, <<800000, FAILURE, "2021-09-01">>,
      <<500100, 600000, "2021-09-01">>, <<700000, 500000, "2021-09-02">>,
      <<500100, 500000, "2021-09-02">> }

RecordLine(r) ==
    <<"1 A St", "Washington", "DC", "20001", r[1], Val(r[2]), r[1] - r[2], r[3]>>

RawFileOf(records) ==
    [exists |-> TRUE,
     lines |-> <<relevant_columns>> \o [i \in 1..Len(records) |-> RecordLine(records[i])]]

InitSummarize ==
    /\ pc = "summarize"
    /\ err = ""
    /\ today \in Dates
    /\ download = NoDownload
    /\ digest = EmptyFrame
    /\ daskclient = "none"
    /\ futures = <<>>
    /\ completed_results = <<>>
    /\ processed_df = EmptyFrame
    /\ rawfile \in {RawFileOf(t) : t \in SeqsUpTo(RecordChoices, MaxRecords)}
                   \cup {NoFile, EarlierRawFile}
    /\ call = NoCall
    /\ incremental \in BOOLEAN
    /\ summary_df = <<>>
    /\ summaryfile \in {NoFile, [exists |-> TRUE, lines |-> <<SummaryColumns>>]}

\* summarize.py main(incremental), from read_csv to to_csv
Summarize ==
    /\ pc = "summarize"
    /\ IF ~rawfile.exists
       THEN Abort("FileNotFoundError") /\ UNCHANGED <<summary_df, summaryfile>>
       ELSE LET df == read_csv(rawfile.lines)
            IN  IF ~(NeededColumns \subseteq Range(df.columns))
                THEN Abort("ValueError") /\ UNCHANGED <<summary_df, summaryfile>>
                ELSE LET rows == Aggregate(SelectRecords(df, incremental, today))
                     IN  /\ summary_df' = rows
                         /\ summaryfile' =
                               IF incremental
                               THEN AppendCsv(summaryfile, SummaryFrame(rows))
                               ELSE OverwriteCsv(SummaryFrame(rows))
                         /\ pc' = "summarized"
                         /\ err' = err
    /\ UNCHANGED <<today, download, digest, daskclient, futures, completed_results,
                   processed_df, rawfile, call, incremental>>

NextSummarize == Summarize

SummarizeSpec == InitSummarize /\ [][NextSummarize]_vars

-----------------------------------------------------------------------------
(* Properties *)

\* pull_details has returned (whatever happened afterwards)
PullDetailsReturned ==
    \/ pc \in {"digest_details", "write", "close_client"}
    \/ pc = "aborted" /\ err \in {"AttributeError", "NameError"}

\* digest_details has returned normally
DigestDetailsReturned ==
    \/ pc \in {"write", "close_client"}
    \/ pc = "aborted" /\ err = "NameError"

\* C1: a Resolver invocation never raises: whatever the remote calls
\* answer, query_redfin_dask returns an assessed value or the sentinel.
C1_ResolverNeverRaises ==
    call.stage # "called" =>
        /\ call.stage = "returned"
        /\ call.result.tag = "val"

\* C2: once pull_details has returned, compile_results applied to its
\* output succeeds and yields a mapping whose keys are exactly the distinct
\* input addresses, each mapped to a value; no invocation's failure aborts
\* the batch.
C2_CompleteMapping ==
    PullDetailsReturned =>
        LET compiled == compile_results(completed_results)
        IN  /\ ~compiled.raised
            /\ DOMAIN compiled.series = Range(list_of_addresses)
            /\ \A a \in DOMAIN compiled.series : compiled.series[a].tag = "val"

\* C3: the merge emits exactly one record per entity row, repeated
\* addresses included, in order; each record carries the entity's fields,
\* the value (or sentinel) the mapping holds for its address and the
\* processing date; sentinel records are kept.
C3_MergeOneRecordPerEntity ==
    DigestDetailsReturned =>
        LET series == compile_results(completed_results).series
        IN  /\ Len(processed_df.rows) = Len(digest.rows)
            /\ \A i \in 1..Len(digest.rows) :
                  /\ \A c \in Range(gen_cols) :
                        processed_df.rows[i][c] = digest.rows[i][c]
                  /\ processed_df.rows[i]["tax_assessed_value"]
                        = series[digest.rows[i]["full_address"]]
                  /\ processed_df.rows[i]["date"] = today

C3_Witness ==
    /\ pc = "write"
    /\ Len(digest.rows) = 2
    /\ digest.rows[1]["full_address"] = digest.rows[2]["full_address"]
    /\ processed_df.rows[2]["tax_assessed_value"] = Val(FAILURE)
    /\ processed_df.rows[2]["date"] = today

\* the download passes digest_listings' checks
Acceptable(dl) ==
    /\ dl.status_code = 200
    /\ \A c \in Range(gen_cols) : c \in Range(dl.content[1])

\* C4: digest_listings accepts the download exactly when its status is 200
\* and every required column is present, returning those columns plus
\* full_address for every listing; otherwise the run aborts there, with no
\* pool created, no invocation dispatched and the raw file untouched, and
\* an aborted run takes no further step.
C4_DigestListingsGate ==
    [][ /\ pc # "aborted"
        /\ pc = "digest_listings" =>
             IF Acceptable(download)
             THEN /\ pc' = "pull_details"
                  /\ digest'.columns = gen_cols \o <<"full_address">>
                  /\ Len(digest'.rows) = Len(download.content) - 1
                  /\ \A i \in 1..Len(digest'.rows) :
                        DOMAIN digest'.rows[i] = Range(digest'.columns)
             ELSE /\ pc' = "aborted"
                  /\ err' = "RuntimeError"
                  /\ daskclient' = "none"
                  /\ futures' = <<>>
                  /\ rawfile' = rawfile ]_vars

C4_Witness ==
    /\ pc = "aborted"
    /\ err = "RuntimeError"
    /\ download.status_code = 200
    /\ futures = <<>>

\* indices of completed_results holding a result for address a
ResultsFor(a) ==
    {k \in 1..Len(completed_results) :
        /\ completed_results[k].kind = "dict"
        /\ completed_results[k].items[1][1] = a}

\* C7: every occurrence of an address gets its own invocation, and the
\* compiled mapping holds one entry per address whose value is the result
\* that arrived last for it, whatever the completion order.
C7_DuplicatesLastWriteWins ==
    /\ pc \in {"collect", "digest_details", "write", "close_client"} =>
          /\ Len(futures) = Len(list_of_addresses)
          /\ \A i \in 1..Len(futures) : futures[i].address = list_of_addresses[i]
    /\ PullDetailsReturned =>
          /\ Len(completed_results) = Len(futures)
          /\ LET compiled == compile_results(completed_results)
             IN  ~compiled.raised =>
                   \A a \in Range(list_of_addresses) :
                      /\ Cardinality(ResultsFor(a))
                            = Cardinality({i \in 1..Len(futures) : futures[i].address = a})
                      /\ a \in DOMAIN compiled.series
                      /\ \E k \in ResultsFor(a) :
                            /\ \A j \in ResultsFor(a) : j <= k
                            /\ compiled.series[a] = completed_results[k].items[1][2]

C7_Witness ==
    /\ pc = "write"
    /\ Len(futures) = 2
    /\ futures[1].address = futures[2].address
    /\ futures[1].result # futures[2].result
    /\ completed_results[2].items[1][2] = futures[1].result
    /\ compile_results(completed_results).series[futures[1].address] = futures[1].result

\* C8: a merge given an entity whose address has no entry in the mapping
\* does not complete normally.
C8_MissingKeyIsFatal ==
    pc = "write" =>
        \A i \in 1..Len(digest.rows) :
            digest.rows[i]["full_address"] \in DOMAIN compile_results(completed_results).series

MergedRecordFields ==
    {"ADDRESS", "CITY", "STATE OR PROVINCE", "ZIP OR POSTAL CODE", "PRICE",
     "tax_assessed_value", "overpriced", "date"}

\* C9: once a scrape run has appended rows to the raw listings file, the
\* file's rows carry address, city, state, zip, price, assessed value,
\* overpriced and date.
C9_RawRowsCarryAllFields ==
    (pc = "close_client" /\ Len(final_df.rows) > 0) =>
        MergedRecordFields \subseteq Range(read_csv(rawfile.lines).columns)

\* the tax history of a world in which all three remote calls succeed and
\* every entry of the history has an assessment year
HasTaxHistory(w) ==
    /\ w.session = GoodSession
    /\ w.redfinclient.initial_info = GoodInitialInfo
    /\ ~w.redfinclient.below_the_fold.raised
    /\ "payload" \in DOMAIN w.redfinclient.below_the_fold.dict
    /\ "publicRecordsInfo" \in DOMAIN w.redfinclient.below_the_fold.dict.payload
    /\ "allTaxInfo" \in DOMAIN w.redfinclient.below_the_fold.dict.payload.publicRecordsInfo
    /\ LET t == w.redfinclient.below_the_fold.dict.payload.publicRecordsInfo.allTaxInfo
       IN  \A i \in 1..Len(t) : "rollYear" \in DOMAIN t[i]

TaxHistoryOf(w) == w.redfinclient.below_the_fold.dict.payload.publicRecordsInfo.allTaxInfo

ComponentOrZero(entry, col) == IF col \in DOMAIN entry THEN entry[col] ELSE 0

\* C10: for a non-empty tax history the result is land value plus
\* improvement value of an entry with the greatest assessment year, a
\* component missing from that entry counting as zero; for an empty one it
\* is the sentinel.
C10_LatestEntrySum ==
    (call.stage # "called" /\ HasTaxHistory(call.world)) =>
        LET t == TaxHistoryOf(call.world)
        IN  /\ call.stage = "returned"
            /\ IF Len(t) = 0
               THEN call.result = Val(FAILURE)
               ELSE \E i \in 1..Len(t) :
                       /\ \A j \in 1..Len(t) : t[j]["rollYear"] <= t[i]["rollYear"]
                       /\ call.result = Val(ComponentOrZero(t[i], "taxableLandValue")
                                          + ComponentOrZero(t[i], "taxableImprovementValue"))

\* the lines of the raw file that hold records (all but the header)
RawRecords == read_csv(rawfile.lines).rows

\* indices of the records the run's mode selects and the filter keeps
Counted ==
    {i \in 1..Len(RawRecords) :
        /\ incremental => RawRecords[i]["date"] = today
        /\ RawRecords[i]["tax_assessed_value"].tag = "val"
        /\ RawRecords[i]["tax_assessed_value"].v > 0}

CountedOn(d) == {i \in Counted : RawRecords[i]["date"] = d}

RECURSIVE SumCounts(_)
SumCounts(rows) ==
    IF rows = <<>> THEN 0 ELSE rows[1].ADDRESS_count + SumCounts(Tail(rows))

\* C5: the summary has exactly one row per distinct date among the records
\* handed to the aggregation (those the run's mode selects) with assessed
\* value > 0, its listing count is the number of such records of that date,
\* and the counts add up to the number of records that pass the filter; a
\* sentinel record is never counted.
C5_OneRowPerDateCountingValid ==
    pc = "summarized" =>
        /\ {summary_df[k].date : k \in 1..Len(summary_df)}
              = {RawRecords[i]["date"] : i \in Counted}
        /\ \A j, k \in 1..Len(summary_df) :
              summary_df[j].date = summary_df[k].date => j = k
        /\ \A k \in 1..Len(summary_df) :
              summary_df[k].ADDRESS_count = Cardinality(CountedOn(summary_df[k].date))
        /\ SumCounts(summary_df) = Cardinality(Counted)

C5_Witness ==
    /\ pc = "summarized"
    /\ Len(RawRecords) = 3
    /\ \A i \in 1..3 : RawRecords[i]["date"] = today
    /\ {RawRecords[i]["tax_assessed_value"] : i \in 1..3}
          = {Val(500000), Val(600000), Val(FAILURE)}
    /\ Len(summary_df) = 1
    /\ summary_df[1].ADDRESS_count = 2

Overpriced(i) == RawRecords[i]["PRICE"] - RawRecords[i]["tax_assessed_value"].v

RECURSIVE SumOver(_)
SumOver(S) ==
    IF S = {} THEN 0
    ELSE LET i == CHOOSE x \in S : TRUE IN Overpriced(i) + SumOver(S \ {i})

\* stat is the median of the overpriced values of the records in S
IsMedianOf(stat, S) ==
    LET lo == {i \in S : Overpriced(i) * stat.den < stat.num}
        hi == {i \in S : Overpriced(i) * stat.den > stat.num}
    IN  /\ stat.tag = "val"
        /\ \/ /\ \E i \in S : Overpriced(i) * stat.den = stat.num
              /\ 2 * Cardinality(lo) < Cardinality(S)
              /\ 2 * Cardinality(hi) < Cardinality(S)
           \/ /\ 2 * Cardinality(lo) = Cardinality(S)
              /\ 2 * Cardinality(hi) = Cardinality(S)
              /\ \E a \in lo, b \in hi :
                    /\ \A i \in lo : Overpriced(i) <= Overpriced(a)
                    /\ \A i \in hi : Overpriced(i) >= Overpriced(b)
                    /\ 2 * stat.num = (Overpriced(a) + Overpriced(b)) * stat.den

\* C6: in every date group the trimmed mean and median are the mean and
\* median of exactly the overpriced values strictly below the threshold;
\* when the group has no such value both are NaN and the run still
\* completes.
C6_TrimmedStatistics ==
    /\ pc = "aborted" =>
          \/ ~rawfile.exists
          \/ ~(NeededColumns \subseteq Range(read_csv(rawfile.lines).columns))
    /\ pc = "summarized" =>
        \A k \in 1..Len(summary_df) :
            LET below == {i \in CountedOn(summary_df[k].date) : Overpriced(i) < threshold}
                mean == summary_df[k].overpriced_adjusted_mean
                median == summary_df[k].overpriced_adjusted_median
            IN  IF below = {}
                THEN mean = NaNStat /\ median = NaNStat
                ELSE /\ mean.tag = "val"
                     /\ mean.num * Cardinality(below) = SumOver(below) * mean.den
                     /\ IsMedianOf(median, below)

C6_Witness ==
    /\ pc = "summarized"
    /\ Len(summary_df) = 1
    /\ {Overpriced(i) : i \in CountedOn(summary_df[1].date)} = {100, 50, 300000}
    /\ summary_df[1].ADDRESS_count = 3
    /\ summary_df[1].overpriced_adjusted_mean = Frac(75, 1)
    /\ summary_df[1].overpriced_adjusted_median = Frac(75, 1)

\* C14: a scrape run that has appended its rows to the raw output goes on
\* to its final step and finishes without raising.
C14_WrittenRunFinishes ==
    [][pc = "close_client" => (pc' = "finished" /\ err' = "")]_vars

\* summarize.py line 32-39 as scripts/incremental_summarize.py lines 25-29
\* write it: one query for today's date and a positive assessed value
SelectIncremental(df, now) ==
    LET parsed == [i \in 1..Len(df.rows) |->
                      [df.rows[i] EXCEPT !["date"] = parse_date(@)]]
        TodayPositive(row) == row["date"] = parse_date(now) /\ PositiveAssessed(row)
        kept == SelectSeq(parsed, TodayPositive)
    IN  [i \in 1..Len(kept) |->
            kept[i] @@ ("overpriced" :> kept[i]["PRICE"] - kept[i]["tax_assessed_value"].v)]

\* scripts/batch_summarize.py lines 25-29: the whole history
SelectBatch(df) ==
    LET parsed == [i \in 1..Len(df.rows) |->
                      [df.rows[i] EXCEPT !["date"] = parse_date(@)]]
        kept == SelectSeq(parsed, PositiveAssessed)
    IN  [i \in 1..Len(kept) |->
            kept[i] @@ ("overpriced" :> kept[i]["PRICE"] - kept[i]["tax_assessed_value"].v)]

\* the rows of a summary for the date now
RowsOf(summary, now) == SelectSeq(summary, LAMBDA row : row.date = now)

\* C13: the summary row incremental mode computes for today's date equals,
\* statistic by statistic, the row batch mode computes for that date over
\* the entire history, in summarize.py and in the two single-mode scripts;
\* incremental mode yields no row for any other date.
C13_IncrementalMatchesBatch ==
    pc = "summarized" =>
        LET df == read_csv(rawfile.lines)
            inc == Aggregate(SelectRecords(df, TRUE, today))
            batch == Aggregate(SelectRecords(df, FALSE, today))
        IN  /\ summary_df = IF incremental THEN inc ELSE batch
            /\ inc = RowsOf(batch, today)
            /\ Aggregate(SelectIncremental(df, today)) = inc
            /\ Aggregate(SelectBatch(df)) = batch

C13_Witness ==
    /\ pc = "summarized"
    /\ incremental
    /\ Len(summary_df) = 1
    /\ summary_df[1].ADDRESS_count = 2
    /\ \E i \in 1..Len(RawRecords) : RawRecords[i]["date"] # today
    /\ Len(Aggregate(SelectRecords(read_csv(rawfile.lines), FALSE, today))) = 2

-----------------------------------------------------------------------------
(* scripts/download_redfin.py: the single-script scrape run.  Its raw     *)
(* output is output/listings.csv, held in rawfile here.                   *)

\* output/listings.csv as an earlier run of the script left it
EarlierListingsFile == RawFileOf(<<<<500100, 500000, "2021-09-01">>>>)

InitDownload ==
    /\ pc = "dl_client"
    /\ err = ""
    /\ today \in Dates
    /\ download = NoDownload
    /\ digest = EmptyFrame
    /\ daskclient = "none"
    /\ futures = <<>>
    /\ completed_results = <<>>
    /\ processed_df = EmptyFrame
    /\ rawfile \in {NoFile, EarlierListingsFile}
    /\ call = NoCall
    /\ incremental = FALSE
    /\ summary_df = <<>>
    /\ summaryfile = NoFile

\* download_redfin.py lines 39-41: daskclient = Client()
ScriptCreateClient ==
    /\ pc = "dl_client"
    /\ daskclient' = "open"
    /\ pc' = "dl_get"
    /\ UNCHANGED <<err, today, download, digest, futures, completed_results,
                   processed_df, rawfile, call, incremental, summary_df, summaryfile>>

\* download_redfin.py lines 43-67: session.get on the gis-csv endpoint
ScriptGet ==
    /\ pc = "dl_get"
    /\ \/ /\ \E d \in Downloads : download' = d
          /\ pc' = "dl_read"
          /\ err' = err
       \/ /\ Abort("ConnectionError")
          /\ download' = download
    /\ UNCHANGED <<today, digest, daskclient, futures, completed_results,
                   processed_df, rawfile, call, incremental, summary_df, summaryfile>>

\* stitch_full_address applied to every row; all columns are kept
StitchFullAddress(df) ==
    [columns |-> df.columns \o <<"full_address">>,
     rows |-> [i \in 1..Len(df.rows) |->
                  df.rows[i] @@ ("full_address" :>
                      df.rows[i]["ADDRESS"] \o ", " \o df.rows[i]["CITY"]
                      \o " " \o df.rows[i]["STATE OR PROVINCE"])]]

\* download_redfin.py lines 68-72: read_csv without a status check, then
\* full_address.  A row without the address columns raises KeyError; on a
\* frame without rows the assignment of the empty apply result either
\* raises or leaves an empty table.
ScriptRead ==
    /\ pc = "dl_read"
    /\ LET df == read_csv(download.content)
       IN  IF {"ADDRESS", "CITY", "STATE OR PROVINCE"} \subseteq Range(df.columns)
           THEN pc' = "dispatch" /\ digest' = StitchFullAddress(df) /\ err' = err
           ELSE IF Len(df.rows) > 0
                THEN Abort("KeyError") /\ digest' = digest
                ELSE \/ Abort("ValueError") /\ digest' = digest
                     \/ /\ pc' = "dispatch"
                        /\ digest' = [columns |-> df.columns \o <<"full_address">>,
                                      rows |-> <<>>]
                        /\ err' = err
    /\ UNCHANGED <<today, download, daskclient, futures, completed_results,
                   processed_df, rawfile, call, incremental, summary_df, summaryfile>>

\* .assign(overpriced=PRICE - tax_assessed_value, date=timestamp)
AssignOverpricedDate(df, timestamp) ==
    [columns |-> df.columns \o <<"overpriced", "date">>,
     rows |-> [i \in 1..Len(df.rows) |->
                  df.rows[i]
                  @@ ("overpriced" :>
                        IF df.rows[i]["tax_assessed_value"].tag = "val"
                        THEN df.rows[i]["PRICE"] - df.rows[i]["tax_assessed_value"].v
                        ELSE NaN)
                  @@ ("date" :> timestamp)]]

\* download_redfin.py lines 84-98: every future has been yielded; the
\* results are compiled and merged onto the listings
ScriptMerge ==
    /\ pc = "collect"
    /\ \A i \in 1..Len(futures) : futures[i].status # "pending"
    /\ LET compiled == compile_results(completed_results)
       IN  IF compiled.raised
           THEN Abort("AttributeError") /\ processed_df' = processed_df
           ELSE IF "PRICE" \notin Range(digest.columns)
                THEN Abort("KeyError") /\ processed_df' = processed_df
                ELSE /\ processed_df' =
                           AssignOverpricedDate(Merge(digest, compiled.series), today)
                     /\ pc' = "dl_write"
                     /\ err' = err
    /\ UNCHANGED <<today, download, digest, daskclient, futures, completed_results,
                   rawfile, call, incremental, summary_df, summaryfile>>

\* download_redfin.py lines 100-112: filter, project, append to listings.csv
ScriptWrite ==
    /\ pc = "dl_write"
    /\ rawfile' = AppendCsv(rawfile, Project(QueryPositive(processed_df), relevant_columns))
    /\ pc' = "dl_close"
    /\ UNCHANGED <<err, today, download, digest, daskclient, futures,
                   completed_results, processed_df, call, incremental,
                   summary_df, summaryfile>>

\* download_redfin.py lines 114-116: daskclient.close()
ScriptClose ==
    /\ pc = "dl_close"
    /\ daskclient' = "closed"
    /\ pc' = "finished"
    /\ UNCHANGED <<err, today, download, digest, futures, completed_results,
                   processed_df, rawfile, call, incremental, summary_df, summaryfile>>

NextDownload ==
    \/ ScriptCreateClient
    \/ ScriptGet
    \/ ScriptRead
    \/ Dispatch
    \/ \E i \in 1..Len(futures) : WorkerFinish(i)
    \/ ScriptMerge
    \/ ScriptWrite
    \/ ScriptClose

DownloadSpec == InitDownload /\ [][NextDownload]_vars

\* C12: a batch's pool exists before any invocation is dispatched, and
\* whenever a run that dispatched invocations has ended, normally or with
\* an error, its pool has been closed.
C12_PoolClosedOnEveryPath ==
    /\ futures # <<>> => daskclient # "none"
    /\ (pc \in {"aborted", "finished"} /\ futures # <<>>) => daskclient = "closed"

-----------------------------------------------------------------------------
(* Scrape runs and summary runs, one after the other, on the same files *)

MaxRawLines == 3        \* a scrape run starts while the raw file is shorter
MaxSummaryLines == 3    \* a summary run starts while the summary is shorter

\* raw listings files that already hold the summary's columns
SummarizableRawFiles ==
    { RawFileOf(<<<<500100, 500000, "2021-09-01">>>>),
      RawFileOf(<<<<500100, 500000, "2021-09-01">>, <<700000, 500000, "2021-09-02">>>>) }

InitSink ==
    /\ pc = "idle"
    /\ err = ""
    /\ today = DateSeq[1]
    /\ download = NoDownload
    /\ digest = EmptyFrame
    /\ daskclient = "none"
    /\ futures = <<>>
    /\ completed_results = <<>>
    /\ processed_df = EmptyFrame
    /\ rawfile \in {NoFile} \cup SummarizableRawFiles
    /\ call = NoCall
    /\ incremental = FALSE
    /\ summary_df = <<>>
    /\ summaryfile = NoFile

\* no script is running
Idle == pc \in {"idle", "summarized", "aborted"}

\* the dates datetime.now() may give to a script started now
LaterDates == {d \in Dates : parse_date(d) >= parse_date(today)}

\* every outcome a worker invocation can have
ResolverOutcomes == UNION {Resolve("", w) : w \in RemoteOutcomes}

\* the lists pull_details may return for a list of addresses
ResultLists(addresses) ==
    {[i \in 1..Len(addresses) |-> Yielded(addresses[i], rs[i])] :
        rs \in [1..Len(addresses) -> ResolverOutcomes]}

\* pull_redfin.py main() for a download, a list of results and a date:
\* the exception that ends it and the raw file it leaves
ScrapeResult(file, dl, results, now) ==
    LET listings == digest_listings(dl)
        details == digest_details(listings.df, results, now)
    IN  IF listings.raised THEN [err |-> "RuntimeError", file |-> file]
        ELSE IF details.raised THEN [err |-> "AttributeError", file |-> file]
        ELSE [err |-> "NameError",
              file |-> AppendCsv(file, Project(QueryPositive(details.df), gen_cols))]

\* a whole run of pull_redfin.py
ScrapeRun ==
    /\ Idle
    /\ Len(rawfile.lines) < MaxRawLines
    /\ \E now \in LaterDates, dl \in Downloads :
          LET listings == digest_listings(dl)
              addresses == [i \in 1..Len(listings.df.rows) |->
                               listings.df.rows[i]["full_address"]]
          IN  \E results \in ResultLists(addresses) :
                 /\ today' = now
                 /\ rawfile' = ScrapeResult(rawfile, dl, results, now).file
                 /\ err' = ScrapeResult(rawfile, dl, results, now).err
                 /\ pc' = "aborted"
    /\ UNCHANGED <<download, digest, daskclient, futures, completed_results,
                   processed_df, call, incremental, summary_df, summaryfile>>

\* summarize.py is started, with --incremental or --batch
LaunchSummarize ==
    /\ Idle
    /\ Len(summaryfile.lines) < MaxSummaryLines
    /\ \E now \in LaterDates, mode \in BOOLEAN :
          /\ today' = now
          /\ incremental' = mode
    /\ pc' = "summarize"
    /\ err' = ""
    /\ summary_df' = <<>>
    /\ UNCHANGED <<download, digest, daskclient, futures, completed_results,
                   processed_df, rawfile, call, summaryfile>>

NextSink ==
    \/ ScrapeRun
    \/ LaunchSummarize
    \/ Summarize

SinkSpec == InitSink /\ [][NextSink]_vars

\* the file, if it exists, starts with a header and holds no other one
OneHeader(file, headers) ==
    file.exists =>
        /\ Len(file.lines) >= 1
        /\ file.lines[1] \in headers
        /\ \A i \in 2..Len(file.lines) : file.lines[i][1] # file.lines[1][1]

IsPrefix(a, b) ==
    /\ Len(a) <= Len(b)
    /\ \A i \in 1..Len(a) : a[i] = b[i]

\* C11: each destination, once it exists, holds exactly one header, as its
\* first line; an append-mode write (scrape run, incremental summary) keeps
\* every line written before in place and adds only its own rows at the
\* end; a batch summary leaves the header and that run's rows only.
C11_AppendKeepsOneHeader ==
    [][ /\ OneHeader(rawfile', {gen_cols, relevant_columns})
        /\ OneHeader(summaryfile', {SummaryColumns})
        /\ rawfile' # rawfile =>
              /\ IsPrefix(rawfile.lines, rawfile'.lines)
              /\ rawfile.exists => Len(rawfile'.lines) > Len(rawfile.lines)
        /\ (pc = "summarize" /\ pc' = "summarized") =>
              IF incremental
              THEN /\ IsPrefix(summaryfile.lines, summaryfile'.lines)
                   /\ Len(summaryfile'.lines)
                         = Len(summaryfile.lines) + Len(summary_df')
                           + (IF summaryfile.exists THEN 0 ELSE 1)
                   /\ \A k \in 1..Len(summary_df') :
                         summaryfile'.lines[Len(summaryfile'.lines) - Len(summary_df') + k][1]
                            = summary_df'[k].date
              ELSE /\ Len(summaryfile'.lines) = 1 + Len(summary_df')
                   /\ \A k \in 1..Len(summary_df') :
                         summaryfile'.lines[1 + k][1] = summary_df'[k].date ]_vars

C11_Witness ==
    /\ pc = "summarized"
    /\ incremental
    /\ Len(summary_df) = 1
    /\ Len(summaryfile.lines) = 3
    /\ summaryfile.lines[1] = SummaryColumns
    /\ summaryfile.lines[3][1] = today
    /\ rawfile.lines[1] = relevant_columns
    /\ \E i \in 2..Len(rawfile.lines) : Len(rawfile.lines[i]) = Len(gen_cols)

=============================================================================
